---------------------------- MODULE Spec2Model ----------------------------
(* A model of main_dino.py: the multi-frame view generation                *)
(* (DataAugmentationDINO, Global_transfo), the distillation loss (DINOLoss) *)
(* and the training loop (train_dino, train_one_epoch).                     *)
(*                                                                          *)
(* Images.  A PIL image is [size, px, adj]: size = <<width, height>> in     *)
(* pixels, exactly as the code computes it; px is the picture's content on  *)
(* a Raster x Raster lattice stretched over the image (8-bit values, one    *)
(* value standing for the three bands); adj is the list of photometric      *)
(* library operations applied to it, kept symbolically as <<op, argument>>. *)
(* Tensors keep the same content with the normalisation constants attached. *)
EXTENDS Integers, Sequences, FiniteSets, TLC

(***************************************************************************)
(* Bounds of the model                                                     *)
(***************************************************************************)
\* side of the content lattice of one image
Raster == 2
\* local_crops_number ranges over 0..MaxLocal
MaxLocal == 1
\* the composite's content is one of the patterns 0..MaxPattern
MaxPattern == 1
\* seeds of Python's random generator: 0..MaxPySeed
MaxPySeed == 63
\* seeds of torch's random generator: 0..MaxTorchSeed
MaxTorchSeed == 1

(***************************************************************************)
(* Program constants                                                       *)
(***************************************************************************)
TileH == 480
TileW == 640
GlobalSize == 224
LocalSize == 96
DiffOffset == 2
MaxPixel == 255

\* the composite sizes <<width, height>> tried: the expected one, a single
\* tile, and one whose width and height are no multiple of the tile
CompositeSizes == {<<640, 1920>>, <<640, 480>>, <<1000, 500>>}
\* --global_crops_scale and --local_crops_scale, in hundredths
GlobalScale == <<40, 100>>
LocalScale == <<5, 40>>

\* outcomes of random.random(), in hundredths
DrawValues == <<5, 15, 50, 70>>

Min(a, b) == IF a < b THEN a ELSE b
Max(a, b) == IF a > b THEN a ELSE b
CeilDiv(a, b) == (a + b - 1) \div b

(***************************************************************************)
(* Random generators: a generator is [seed, pos]; a draw reads the value at *)
(* pos and advances pos.                                                   *)
(***************************************************************************)
PyValue(g) ==
    DrawValues[((((g.seed + 21 * (g.pos \div 3)) % 64) \div (4 ^ (g.pos % 3))) % 4) + 1]
TorchValue(g) == (g.seed * (g.pos + 1) + (g.pos \div 2) + g.pos * g.pos) % 6
Advance(g) == [g EXCEPT !.pos = @ + 1]

(***************************************************************************)
(* PIL images                                                              *)
(***************************************************************************)
Rows(img) == Len(img.px)
Cols(img) == Len(img.px[1])

\* the pixel of img at <<x2, y2>> / (2 * Raster); black outside the image
Sample(img, x2, y2) ==
    IF x2 < 0 \/ y2 < 0 \/ x2 >= 2 * Raster * img.size[1] \/ y2 >= 2 * Raster * img.size[2]
    THEN 0
    ELSE img.px[((y2 * Rows(img)) \div (2 * Raster * img.size[2])) + 1]
               [((x2 * Cols(img)) \div (2 * Raster * img.size[1])) + 1]

\* Image.crop(box), box = <<left, upper, right, lower>>
PilCrop(im, box) ==
    [size |-> <<box[3] - box[1], box[4] - box[2]>>,
     px |-> [a \in 1..Raster |-> [b \in 1..Raster |->
               Sample(im, 2 * Raster * box[1] + (2 * b - 1) * (box[3] - box[1]),
                          2 * Raster * box[2] + (2 * a - 1) * (box[4] - box[2]))]],
     adj |-> im.adj]

\* TF.crop(img, top, left, height, width)
TFCrop(img, top, left, height, width) ==
    PilCrop(img, <<left, top, left + width, top + height>>)

\* Image.resize(size): the content is kept, at the new size
Resize(img, size) == [img EXCEPT !.size = size]

\* TF.hflip, TF.vflip
HFlipImg(img) ==
    [img EXCEPT !.px = [a \in 1..Rows(img) |-> [b \in 1..Cols(img) |->
                          img.px[a][Cols(img) + 1 - b]]]]
VFlipImg(img) ==
    [img EXCEPT !.px = [a \in 1..Rows(img) |-> img.px[Rows(img) + 1 - a]]]

\* a photometric library operation, recorded on the image
Adjust(img, op, arg) == [img EXCEPT !.adj = Append(@, <<op, arg>>)]

\* ImageChops.subtract(image1, image2, scale, offset) on one pixel:
\* clip((image1 - image2) / scale + offset) to 0..MaxPixel
SubtractPixel(p1, p2, scale, offset) ==
    Min(MaxPixel, Max(0, ((p1 - p2) \div scale) + offset))

SubtractWrongOrder(image1, image2) ==
    [size |-> image1.size,
     px |-> [a \in 1..Rows(image1) |-> [b \in 1..Cols(image1) |->
               SubtractPixel(image2.px[a][b], image1.px[a][b], 1, DiffOffset)]],
     adj |-> <<>>]

\* ImageChops.subtract(images[i], images[i+1], scale=1.0, offset=2)
Subtract(image1, image2) ==
    [size |-> image1.size,
     px |-> [a \in 1..Rows(image1) |-> [b \in 1..Cols(image1) |->
               SubtractPixel(image1.px[a][b], image2.px[a][b], 1, DiffOffset)]],
     adj |-> <<>>]

(***************************************************************************)
(* The composite image and the frame splitter                              *)
(***************************************************************************)
PatternValues == <<0, 255, 1, 128, 254>>

\* the content of lattice cell <<r, c>> of a composite with pattern pat:
\* pattern 0 is one flat colour, the others vary from cell to cell
PatternValue(pat, r, c) ==
    IF pat = 0 THEN 200 ELSE PatternValues[(((r + pat) * 7 + c * 3) % 5) + 1]

\* a decoded composite of the given size
Composite(size, pat) ==
    [size |-> size,
     px |-> [r \in 1..(Raster * CeilDiv(size[2], TileH)) |->
               [c \in 1..(Raster * CeilDiv(size[1], TileW)) |-> PatternValue(pat, r, c)]],
     adj |-> <<>>]

RangeLenWholeSteps(stop, step) == stop \div step

\* len(range(0, stop, step))
RangeLen(stop, step) == CeilDiv(stop, step)

TileBoxSkipFirst(k, imgwidth, height, width) ==
    LET ncols == RangeLen(imgwidth, width)
        i == (k \div ncols) * height
        j == (k % ncols) * width
    IN <<j, i, j + width, i + height>>

\* the box of the k-th tile appended (k from 1), row by row
TileBox(k, imgwidth, height, width) ==
    LET ncols == RangeLen(imgwidth, width)
        i == ((k - 1) \div ncols) * height
        j == ((k - 1) % ncols) * width
    IN <<j, i, j + width, i + height>>

\* crop(im, height, width) of DataAugmentationDINO.__call__
SplitFrames(im, height, width) ==
    LET imgwidth == im.size[1]
        imgheight == im.size[2]
    IN [k \in 1..(RangeLen(imgheight, height) * RangeLen(imgwidth, width)) |->
          PilCrop(im, TileBox(k, imgwidth, height, width))]

(***************************************************************************)
(* Random parameters drawn by the library                                  *)
(***************************************************************************)
\* the least s with s * s >= n, and the greatest s with s * s <= n
\* (n <= bound * bound)
SqrtUp(n, bound) == CHOOSE s \in 0..bound : s * s >= n /\ (s = 0 \/ (s - 1) * (s - 1) < n)
SqrtDown(n, bound) == CHOOSE s \in 0..bound : s * s <= n /\ (s + 1) * (s + 1) > n

\* RandomResizedCrop.get_params(img, scale, ratio=[0.999, 1.001]): a square
\* of an area within scale, anywhere inside the image, or the central crop
\* it falls back to; d is the generator's draw
GetParams(size, scale, d) ==
    LET width == size[1]
        height == size[2]
        area == width * height
        lo == SqrtUp(CeilDiv(scale[1] * area, 100), Max(width, height))
        top == SqrtDown((scale[2] * area) \div 100, Max(width, height))
        hi == Min(top, Min(width, height))
        side == CASE d % 3 = 0 -> lo
                  [] d % 3 = 1 -> hi
                  [] OTHER -> (lo + hi) \div 2
        fallback == (d % 3 = 2 /\ top > hi) \/ lo > hi
        fh == IF width * 1000 < 999 * height THEN (width * 1000 + 499) \div 999 ELSE height
        fw == IF width * 1000 > 1001 * height THEN (height * 1001 + 500) \div 1000 ELSE width
    IN IF fallback
       THEN <<(height - Min(fh, height)) \div 2, (width - Min(fw, width)) \div 2,
              Min(fh, height), Min(fw, width)>>
       ELSE IF d \div 3 = 0
            THEN <<0, 0, side, side>>
            ELSE <<height - side, width - side, side, side>>

\* ColorJitter(brightness=0.4, contrast=0.4, saturation=0.2, hue=0.1)
JitterBrightness == 40
JitterContrast == 40
JitterSaturation == 20
JitterHue == 10

FactorRangeOfBrightness(value) == <<Max(0, 100 - JitterBrightness), 100 + JitterBrightness>>

\* ColorJitter's ranges, in hundredths
FactorRange(value) == <<Max(0, 100 - value), 100 + value>>
HueRange(value) == <<-value, value>>

Perms == << <<0, 1, 2, 3>>, <<3, 2, 1, 0>> >>
Uniform(range, u) == range[1] + ((range[2] - range[1]) * u) \div 2

\* ColorJitter.get_params(brightness, contrast, saturation, hue)
JitterParams(d) ==
    [fn_idx |-> Perms[(d % 2) + 1],
     brightness_factor |-> Uniform(FactorRange(JitterBrightness), d % 3),
     contrast_factor |-> Uniform(FactorRange(JitterContrast), (d + 1) % 3),
     saturation_factor |-> Uniform(FactorRange(JitterSaturation), (d + 2) % 3),
     hue_factor |-> Uniform(HueRange(JitterHue), (d \div 2) % 3)]

NoJitter ==
    [fn_idx |-> <<>>, brightness_factor |-> 0, contrast_factor |-> 0,
     saturation_factor |-> 0, hue_factor |-> 0]

\* the inner loop over fn_idx, on one image (operations 0..3)
RECURSIVE ApplyJitter(_, _, _)
ApplyJitter(img, jp, n) ==
    IF n > Len(jp.fn_idx) THEN img
    ELSE LET fn_id == jp.fn_idx[n]
             arg == CASE fn_id = 0 -> jp.brightness_factor
                      [] fn_id = 1 -> jp.contrast_factor
                      [] fn_id = 2 -> jp.saturation_factor
                      [] OTHER -> jp.hue_factor
         IN ApplyJitter(Adjust(img, fn_id, arg), jp, n + 1)

OpBlur == 4
OpSolarize == 5

\* utils.GaussianBlur(do_it, p=p) on the list of frames
GaussianBlur(imgs, flag, prob) ==
    IF flag THEN [x \in 1..Len(imgs) |-> Adjust(imgs[x], OpBlur, prob)] ELSE imgs

\* utils.Solarization(do_it) on the list of frames
Solarization(imgs, flag) ==
    IF flag THEN [x \in 1..Len(imgs) |-> Adjust(imgs[x], OpSolarize, 0)] ELSE imgs

(***************************************************************************)
(* Tensors                                                                 *)
(***************************************************************************)
ImageNetMean == <<485, 456, 406>>
ZeroMean == <<0, 0, 0>>
ImageNetStd == <<229, 224, 225>>

\* transforms.ToTensor(): a (3, height, width) tensor of the pixels / 255
ToTensor(img) ==
    [shape |-> <<3, img.size[2], img.size[1]>>, px |-> img.px, adj |-> img.adj,
     norm |-> <<>>]

\* transforms.Normalize(mean, std), in thousandths
Normalize(t, mean, std) == [t EXCEPT !.norm = Append(@, <<mean, std>>)]

\* t[0:, None, :]: a new axis 1 of length 1
Unsqueeze(t) ==
    [shape |-> <<t.shape[1], 1, t.shape[2], t.shape[3]>>,
     data |-> << [px |-> t.px, adj |-> t.adj, norm |-> t.norm] >>]

\* torch.cat((first, second), 1)
Cat(first, second) ==
    [shape |-> <<first.shape[1], first.shape[2] + second.shape[2],
                 first.shape[3], first.shape[4]>>,
     data |-> first.data \o second.data]

\* the concat loop of a branch, from iteration i (0-based lists: imgs[i + 1]
\* is images[i])
RECURSIVE ConcatLoop(_, _, _, _)
ConcatLoop(acc, imgs, diffs, i) ==
    IF i > Len(imgs) - 1 THEN acc
    ELSE ConcatLoop(Cat(Unsqueeze(diffs[i]), Cat(Unsqueeze(imgs[i + 1]), acc)),
                    imgs, diffs, i + 1)

Assemble(imgs, diffs) == ConcatLoop(Unsqueeze(imgs[1]), imgs, diffs, 1)

NoTensor == [shape |-> <<>>, data |-> <<>>]

(***************************************************************************)
(* State                                                                   *)
(***************************************************************************)
VARIABLES
    \* DataAugmentationDINO.__call__
    local_crops_number,   \* self.local_crops_number
    image,                \* the composite handed to __call__
    call_images,          \* images: the frames crop() returned
    crops,                \* the list of views built so far
    pc,                   \* position in __call__
    calls,                \* history: the branch calls made, with their rectangles
    pyRand,               \* Python's random generator
    torchRand,            \* torch's random generator
    \* the running call of Global_transfo.transfo1 / transfo2 / local_transfo
    br,                   \* which of the three, or "none"
    bpc,                  \* position in it
    images,               \* its copy of the frames
    image_diff,           \* its difference images
    ijhw,                 \* i, j, h, w of get_params
    jit,                  \* fn_idx and the four factors
    do_it,                \* the last apply flag
    p,                    \* the last draw of random.random()
    torchTensor           \* the tensor being assembled

augVars == <<local_crops_number, image, call_images, crops, pc, calls, pyRand,
             torchRand, br, bpc, images, image_diff, ijhw, jit, do_it, p, torchTensor>>

VARIABLES
    \* DINOLoss
    ncrops,               \* self.ncrops
    batch,                \* rows of one view in student_output and teacher_output
    world,                \* dist.get_world_size()
    center,               \* self.center, an exact fraction [num, den] per logit
    lossIn,               \* the arguments and the other workers' sums of the last call
    prevCenter,           \* history: self.center when the last call began
    pairs,                \* history: the <<iq, v>> whose loss the last call added
    n_loss_terms,         \* n_loss_terms of the last call
    total_loss,           \* the last call's result, an exact fraction [num, den]
    raised,               \* the exception the last call ended with, or "none"
    evals                 \* calls of forward so far

lossVars == <<ncrops, batch, world, center, lossIn, prevCenter, pairs, n_loss_terms,
              total_loss, raised, evals>>

VARIABLES
    \* train_dino and train_one_epoch
    epochs,               \* args.epochs
    nIter,                \* len(data_loader)
    use_fp16,             \* args.use_fp16
    tpc,                  \* position of the training process
    epoch,                \* epoch of the loop of train_dino
    it,                   \* index of the batch in the running epoch
    gstep,                \* it after "it = len(data_loader) * epoch + it"
    sched,                \* the schedule index whose lr and wd the optimizer holds
    student,              \* a student parameter
    teacher,              \* the matching teacher parameter, an exact fraction [num, den]
    loss_finite,          \* math.isfinite(loss.item()) of the running iteration
    trace,                \* history: the steps done in the running iteration
    teacherBefore,        \* history: the teacher parameter before the last EMA update
    reads,                \* history: the schedule indices this process has read
    checkpoint,           \* checkpoint.pth
    log,                  \* log.txt: the epochs of its records
    exit_code,            \* the exit status of the process, -1 while it runs
    restarts,             \* how often the process was killed and started again
    allReads,             \* history: the schedule reads <<schedule, index>> of all processes
    midKill               \* history: a process was killed with an epoch under way

trainVars == <<epochs, nIter, use_fp16, tpc, epoch, it, gstep, sched, student, teacher,
               loss_finite, trace, teacherBefore, reads, checkpoint, log, exit_code,
               restarts, allReads, midKill>>

(***************************************************************************)
(* DataAugmentationDINO.__call__                                           *)
(***************************************************************************)
BranchAtShortLoop(k, n) ==
    CASE k = 1 -> "transfo1"
      [] k = 2 -> "transfo2"
      [] k > 2 /\ k < 2 + n -> "local_transfo"
      [] OTHER -> "done"

\* the k-th branch call of __call__ with local_crops_number = n, or "done"
BranchAt(k, n) ==
    CASE k = 1 -> "transfo1"
      [] k = 2 -> "transfo2"
      [] k > 2 /\ k <= 2 + n -> "local_transfo"
      [] OTHER -> "done"

SizeOfAllGlobal(b) == GlobalSize

\* the scale and the output side of a branch
ScaleOf(b) == IF b = "local_transfo" THEN LocalScale ELSE GlobalScale
SizeOf(b) == IF b = "local_transfo" THEN LocalSize ELSE GlobalSize

\* the thresholds of the apply flags, in hundredths
BlurThreshold(b) == IF b = "transfo2" THEN 10 ELSE 50
SolarizeThreshold == 20
FlipThreshold == 50

StepAfterFlipsFirst(b, step) ==
    CASE step = "crop" -> "hflip"
      [] step = "hflip" -> "vflip"
      [] step = "vflip" -> "diff"
      [] step = "diff" -> "jitter"
      [] step = "jitter" -> "blur"
      [] step = "blur" -> "randint"
      [] step = "randint" -> IF b = "transfo2" THEN "solarize" ELSE "tensor"
      [] step = "solarize" -> "tensor"
      [] step = "tensor" -> "concat"
      [] OTHER -> "return"

ApplyFlagBelow(draw, threshold) == draw < threshold

\* do_it = False; if p >= threshold: do_it = True
ApplyFlag(draw, threshold) == draw >= threshold

\* the order of the statements of a branch
StepAfter(b, step) ==
    CASE step = "crop" -> "diff"
      [] step = "diff" -> "hflip"
      [] step = "hflip" -> "vflip"
      [] step = "vflip" -> "jitter"
      [] step = "jitter" -> "blur"
      [] step = "blur" -> "randint"
      [] step = "randint" -> IF b = "transfo2" THEN "solarize" ELSE "tensor"
      [] step = "solarize" -> "tensor"
      [] step = "tensor" -> "concat"
      [] OTHER -> "return"

CopiesListNever(b) == FALSE

\* images = inp_images.copy(): the branch works on a list of its own
CopiesList(b) == TRUE

\* the caller's list after images[x] = ... in the crop, flip and jitter
\* loops, own being the branch's list: untouched if the branch copied it,
\* else the same list (from images = transform_GB(images) on, the name is
\* bound to the list the library returned)
InpImages(b, own, caller) == IF CopiesList(b) THEN caller ELSE own

NoLocals ==
    /\ br' = "none"
    /\ bpc' = "none"
    /\ images' = <<>>
    /\ image_diff' = <<>>
    /\ ijhw' = <<0, 0, 0, 0>>
    /\ jit' = NoJitter
    /\ do_it' = FALSE
    /\ p' = 0
    /\ torchTensor' = NoTensor

\* images = crop(image, 480, 640); crops = []
Split ==
    /\ pc = "split"
    /\ call_images' = SplitFrames(image, TileH, TileW)
    /\ crops' = <<>>
    /\ pc' = "branch"
    /\ UNCHANGED <<local_crops_number, image, calls, pyRand, torchRand, br, bpc,
                   images, image_diff, ijhw, jit, do_it, p, torchTensor>>
    /\ UNCHANGED <<lossVars, trainVars>>

\* Gt1.transfo1(images, ...), Gt1.transfo2(images, ...), Gt1.local_transfo(images, ...):
\* the call, up to images = inp_images.copy()
CallBranch ==
    /\ pc = "branch"
    /\ br = "none"
    /\ BranchAt(Len(crops) + 1, local_crops_number) # "done"
    /\ br' = BranchAt(Len(crops) + 1, local_crops_number)
    /\ bpc' = "crop"
    /\ images' = call_images
    /\ image_diff' = <<>>
    /\ UNCHANGED <<local_crops_number, image, call_images, crops, pc, calls, pyRand,
                   torchRand, ijhw, jit, do_it, p, torchTensor>>
    /\ UNCHANGED <<lossVars, trainVars>>

\* return crops
Finish ==
    /\ pc = "branch"
    /\ br = "none"
    /\ BranchAt(Len(crops) + 1, local_crops_number) = "done"
    /\ pc' = "done"
    /\ UNCHANGED <<local_crops_number, image, call_images, crops, calls, pyRand,
                   torchRand, br, bpc, images, image_diff, ijhw, jit, do_it, p,
                   torchTensor>>
    /\ UNCHANGED <<lossVars, trainVars>>

(***************************************************************************)
(* Global_transfo.transfo1, transfo2, local_transfo                        *)
(***************************************************************************)
CropTopShadowed(x, i) == x

\* the top of the rectangle used for frame x (x from 0): i
CropTop(x, i) == i

\* get_params on images[0], then crop and resize of every frame
CropStep ==
    /\ bpc = "crop"
    /\ ijhw' = GetParams(images[1].size, ScaleOf(br), TorchValue(torchRand))
    /\ images' = [x \in 1..Len(images) |->
                    Resize(TFCrop(images[x], CropTop(x - 1, ijhw'[1]), ijhw'[2],
                                  ijhw'[3], ijhw'[4]),
                           <<SizeOf(br), SizeOf(br)>>)]
    /\ torchRand' = Advance(torchRand)
    /\ bpc' = StepAfter(br, "crop")
    /\ UNCHANGED <<local_crops_number, image, crops, pc, calls, pyRand,
                   br, image_diff, jit, do_it, p, torchTensor>>
    /\ call_images' = InpImages(br, images', call_images)
    /\ UNCHANGED <<lossVars, trainVars>>

\* for i in range(len(images)-1): image_diff.append(ImageChops.subtract(...))
DiffStep ==
    /\ bpc = "diff"
    /\ image_diff' = image_diff \o
                       [i \in 1..(Len(images) - 1) |-> Subtract(images[i], images[i + 1])]
    /\ bpc' = StepAfter(br, "diff")
    /\ UNCHANGED <<local_crops_number, image, call_images, crops, pc, calls, pyRand,
                   torchRand, br, images, ijhw, jit, do_it, p, torchTensor>>
    /\ UNCHANGED <<lossVars, trainVars>>

HFlipStepPerFrame ==
    /\ bpc = "hflip"
    /\ images' = [x \in 1..Len(images) |->
                    IF PyValue([pyRand EXCEPT !.pos = @ + x - 1]) > FlipThreshold
                    THEN HFlipImg(images[x]) ELSE images[x]]
    /\ pyRand' = Advance(pyRand)
    /\ bpc' = StepAfter(br, "hflip")
    /\ UNCHANGED <<local_crops_number, image, crops, pc, calls,
                   torchRand, br, image_diff, ijhw, jit, do_it, p, torchTensor>>
    /\ call_images' = InpImages(br, images', call_images)
    /\ UNCHANGED <<lossVars, trainVars>>

\* if random.random() > 0.5: every frame is flipped left to right
HFlipStep ==
    /\ bpc = "hflip"
    /\ images' = IF PyValue(pyRand) > FlipThreshold
                 THEN [x \in 1..Len(images) |-> HFlipImg(images[x])]
                 ELSE images
    /\ pyRand' = Advance(pyRand)
    /\ bpc' = StepAfter(br, "hflip")
    /\ UNCHANGED <<local_crops_number, image, crops, pc, calls,
                   torchRand, br, image_diff, ijhw, jit, do_it, p, torchTensor>>
    /\ call_images' = InpImages(br, images', call_images)
    /\ UNCHANGED <<lossVars, trainVars>>

\* if random.random() > 0.5: every frame is flipped top to bottom
VFlipStep ==
    /\ bpc = "vflip"
    /\ images' = IF PyValue(pyRand) > FlipThreshold
                 THEN [x \in 1..Len(images) |-> VFlipImg(images[x])]
                 ELSE images
    /\ pyRand' = Advance(pyRand)
    /\ bpc' = StepAfter(br, "vflip")
    /\ UNCHANGED <<local_crops_number, image, crops, pc, calls,
                   torchRand, br, image_diff, ijhw, jit, do_it, p, torchTensor>>
    /\ call_images' = InpImages(br, images', call_images)
    /\ UNCHANGED <<lossVars, trainVars>>

\* ColorJitter.get_params, then the four operations on every frame
JitterStep ==
    /\ bpc = "jitter"
    /\ jit' = JitterParams(TorchValue(torchRand))
    /\ images' = [x \in 1..Len(images) |-> ApplyJitter(images[x], jit', 1)]
    /\ torchRand' = Advance(torchRand)
    /\ bpc' = StepAfter(br, "jitter")
    /\ UNCHANGED <<local_crops_number, image, crops, pc, calls, pyRand,
                   br, image_diff, ijhw, do_it, p, torchTensor>>
    /\ call_images' = InpImages(br, images', call_images)
    /\ UNCHANGED <<lossVars, trainVars>>

\* p = random.random(); do_it = p >= threshold; utils.GaussianBlur(do_it, p=p)
BlurStep ==
    /\ bpc = "blur"
    /\ p' = PyValue(pyRand)
    /\ do_it' = ApplyFlag(p', BlurThreshold(br))
    /\ images' = GaussianBlur(images, do_it', p')
    /\ pyRand' = Advance(pyRand)
    /\ bpc' = StepAfter(br, "blur")
    /\ UNCHANGED <<local_crops_number, image, call_images, crops, pc, calls,
                   torchRand, br, image_diff, ijhw, jit, torchTensor>>
    /\ UNCHANGED <<lossVars, trainVars>>

\* rnd = random.randint(1, 100000): the value is not used
RandintStep ==
    /\ bpc = "randint"
    /\ pyRand' = Advance(pyRand)
    /\ bpc' = StepAfter(br, "randint")
    /\ UNCHANGED <<local_crops_number, image, call_images, crops, pc, calls,
                   torchRand, br, images, image_diff, ijhw, jit, do_it, p, torchTensor>>
    /\ UNCHANGED <<lossVars, trainVars>>

\* transfo2 only: p = random.random(); do_it = p >= 0.2; utils.Solarization(do_it)
SolarizeStep ==
    /\ bpc = "solarize"
    /\ p' = PyValue(pyRand)
    /\ do_it' = ApplyFlag(p', SolarizeThreshold)
    /\ images' = Solarization(images, do_it')
    /\ pyRand' = Advance(pyRand)
    /\ bpc' = StepAfter(br, "solarize")
    /\ UNCHANGED <<local_crops_number, image, call_images, crops, pc, calls,
                   torchRand, br, image_diff, ijhw, jit, torchTensor>>
    /\ UNCHANGED <<lossVars, trainVars>>

\* ToTensor and Normalize of the frames, then of the differences
TensorStep ==
    /\ bpc = "tensor"
    /\ images' = [x \in 1..Len(images) |->
                    Normalize(ToTensor(images[x]), ImageNetMean, ImageNetStd)]
    /\ image_diff' = [i \in 1..Len(image_diff) |->
                        Normalize(ToTensor(image_diff[i]), ZeroMean, ImageNetStd)]
    /\ bpc' = StepAfter(br, "tensor")
    /\ UNCHANGED <<local_crops_number, image, call_images, crops, pc, calls, pyRand,
                   torchRand, br, ijhw, jit, do_it, p, torchTensor>>
    /\ UNCHANGED <<lossVars, trainVars>>

\* the concat loop
ConcatStep ==
    /\ bpc = "concat"
    /\ torchTensor' = Assemble(images, image_diff)
    /\ bpc' = StepAfter(br, "concat")
    /\ UNCHANGED <<local_crops_number, image, call_images, crops, pc, calls, pyRand,
                   torchRand, br, images, image_diff, ijhw, jit, do_it, p>>
    /\ UNCHANGED <<lossVars, trainVars>>

\* return torchTensor; crops.append(...) in the caller
ReturnStep ==
    /\ bpc = "return"
    /\ crops' = Append(crops, torchTensor)
    /\ calls' = Append(calls, [fn |-> br, rect |-> ijhw])
    /\ NoLocals
    /\ UNCHANGED <<local_crops_number, image, call_images, pc, pyRand, torchRand>>
    /\ UNCHANGED <<lossVars, trainVars>>

(***************************************************************************)
(* DINOLoss                                                                *)
(***************************************************************************)
\* ncrops ranges over 0..MaxCrops, the batch size over 1..MaxBatch, the
\* world size over 1..MaxWorld; out_dim is OutDim; the networks' outputs are
\* of the kinds 0..MaxKind; a run makes up to MaxEvals calls of forward
MaxCrops == 3
MaxBatch == 2
MaxWorld == 2
OutDim == 2
MaxKind == 1
MaxEvals == 2

\* center_momentum = 0.9, in tenths
CenterMomentum == 9

\* logit c of row r of a teacher output: kind 0 repeats one vector on every
\* row, the other kinds vary from row to row
Logit(kind, r, c) == IF kind = 0 THEN 3 * c ELSE ((kind * r + 2 * c) % 5) - 1

TeacherOutput(kind, rows) ==
    [r \in 1..rows |-> [c \in 1..OutDim |-> Logit(kind, r, c)]]

\* torch.sum(teacher_output, dim=0, keepdim=True)
RECURSIVE ColumnSum(_, _, _)
ColumnSum(t, c, r) == IF r = 0 THEN 0 ELSE t[r][c] + ColumnSum(t, c, r - 1)
SumRows(t) == [c \in 1..OutDim |-> ColumnSum(t, c, Len(t))]

\* the number of chunks tensor.chunk(chunks) returns for rows > 0 rows
ChunkCount(rows, chunks) == CeilDiv(rows, CeilDiv(rows, chunks))

\* loss.mean() of teacher chunk iq against student chunk v: a positive value
\* fixed by the two outputs
PairLoss(kind, iq, v) == 1 + ((kind * 5 + 7 * iq + 2 * v) % 11)

PairsNoSkip(nteacher, nstudent) ==
    [n \in 1..(nteacher * nstudent) |-> <<(n - 1) \div nstudent, (n - 1) % nstudent>>]

\* the <<iq, v>> of the two loops, in their order, without the skipped v = iq
RECURSIVE PairsFrom(_, _, _, _)
PairsFrom(nteacher, nstudent, iq, v) ==
    IF iq >= nteacher THEN <<>>
    ELSE IF v >= nstudent THEN PairsFrom(nteacher, nstudent, iq + 1, 0)
    ELSE IF v = iq THEN PairsFrom(nteacher, nstudent, iq, v + 1)
    ELSE << <<iq, v>> >> \o PairsFrom(nteacher, nstudent, iq, v + 1)

PairsOfSharedViews(nteacher, nstudent) ==
    PairsFrom(Min(nteacher, nstudent), nstudent, 0, 0)

PairsOf(nteacher, nstudent) == PairsFrom(nteacher, nstudent, 0, 0)

\* total_loss after the loops
RECURSIVE SumLoss(_, _, _)
SumLoss(kind, ps, n) ==
    IF n = 0 THEN 0 ELSE PairLoss(kind, ps[n][1], ps[n][2]) + SumLoss(kind, ps, n - 1)

UpdateCenterLocalMean(c, teacher_output, reduced, world_size) ==
    [num |-> [k \in 1..OutDim |->
                CenterMomentum * c.num[k] * Len(teacher_output)
                + (10 - CenterMomentum) * reduced[k] * c.den],
     den |-> 10 * c.den * Len(teacher_output)]

\* update_center: reduced is batch_center after dist.all_reduce; the new
\* center is center * 0.9 + reduced / (len(teacher_output) * world_size) * 0.1
UpdateCenter(c, teacher_output, reduced, world_size) ==
    [num |-> [k \in 1..OutDim |->
                CenterMomentum * c.num[k] * (Len(teacher_output) * world_size)
                + (10 - CenterMomentum) * reduced[k] * c.den],
     den |-> 10 * c.den * (Len(teacher_output) * world_size)]

ZeroCenter == [num |-> [k \in 1..OutDim |-> 0], den |-> 1]
NoLossIn == [kind |-> 0, teacher_output |-> <<>>, reduced |-> <<>>]
NoLoss == [num |-> 0, den |-> 1]

\* DINOLoss.forward with ncrops >= 1: the loops, the division, update_center
Forward ==
    /\ evals < MaxEvals
    /\ raised = "none"
    /\ ncrops >= 1
    /\ \E kind \in 0..MaxKind, okind \in 0..MaxKind :
          LET teacher_output == TeacherOutput(kind, 2 * batch)
              others == SumRows(TeacherOutput(okind, 2 * batch))
              reduced == [k \in 1..OutDim |->
                            SumRows(teacher_output)[k] + (world - 1) * others[k]]
              ps == PairsOf(ChunkCount(2 * batch, 2), ChunkCount(ncrops * batch, ncrops))
          IN /\ lossIn' = [kind |-> kind, teacher_output |-> teacher_output,
                           reduced |-> reduced]
             /\ pairs' = ps
             /\ n_loss_terms' = Len(ps)
             /\ IF Len(ps) = 0
                THEN /\ raised' = "ZeroDivisionError"
                     /\ UNCHANGED <<total_loss, center, prevCenter>>
                ELSE /\ raised' = "none"
                     /\ total_loss' = [num |-> SumLoss(kind, ps, Len(ps)), den |-> Len(ps)]
                     /\ prevCenter' = center
                     /\ center' = UpdateCenter(center, teacher_output, reduced, world)
    /\ evals' = evals + 1
    /\ UNCHANGED <<ncrops, batch, world>>
    /\ UNCHANGED <<augVars, trainVars>>

\* DINOLoss.forward with ncrops = 0: student_output.chunk(0) raises
ForwardChunkError ==
    /\ evals < MaxEvals
    /\ raised = "none"
    /\ ncrops < 1
    /\ raised' = "RuntimeError"
    /\ evals' = evals + 1
    /\ UNCHANGED <<ncrops, batch, world, center, lossIn, prevCenter, pairs,
                   n_loss_terms, total_loss>>
    /\ UNCHANGED <<augVars, trainVars>>

(***************************************************************************)
(* train_dino and train_one_epoch                                          *)
(***************************************************************************)
\* args.epochs ranges over 1..MaxEpochs, len(data_loader) over 1..MaxIter;
\* the process is killed and started again at most MaxRestarts times
MaxEpochs == 2
MaxIter == 2
MaxRestarts == 1

\* momentum_schedule[i], in quarters: from 1/2 towards 1
MomentumSchedule(i, total) == Min(4, 2 + (2 * i) \div Max(1, total - 1))

\* the change optimizer.step() makes to the parameter: never zero
Gradient(w, i) == 1 + ((w + i) % 3)

\* param_k.data.mul_(m).add_((1 - m) * param_q.detach().data), m in quarters
Ema(param_k, param_q, m) ==
    [num |-> m * param_k.num + (4 - m) * param_q * param_k.den, den |-> 4 * param_k.den]

NoCheckpoint == [exists |-> FALSE, epoch |-> 0, student |-> 0, teacher |-> [num |-> 0, den |-> 1]]
InitialStudent == 1

\* utils.restart_from_checkpoint(path, run_variables=to_restore, student=...,
\* teacher=...): the values of the checkpoint if the file exists, else those
\* of the running process
RestartFromCheckpoint(ckpt, running) ==
    IF ckpt.exists
    THEN [epoch |-> ckpt.epoch, student |-> ckpt.student, teacher |-> ckpt.teacher]
    ELSE running

MustExitNever(finite) == FALSE

\* if not math.isfinite(loss.item()): ... sys.exit(1)
MustExit(finite) == ~finite

TrainStepAfterEmaFirst(step) ==
    CASE step = "schedules" -> "forward"
      [] step = "forward" -> "check"
      [] step = "check" -> "backward"
      [] step = "backward" -> "ema"
      [] step = "ema" -> "step"
      [] OTHER -> "metrics"

\* the order of the statements of one iteration of train_one_epoch
TrainStepAfter(step) ==
    CASE step = "schedules" -> "forward"
      [] step = "forward" -> "check"
      [] step = "check" -> "backward"
      [] step = "backward" -> "step"
      [] step = "step" -> "ema"
      [] OTHER -> "metrics"

\* train_dino up to the loop: the networks are built, the teacher gets the
\* student's weights, and restart_from_checkpoint restores a checkpoint if
\* there is one
Start ==
    /\ tpc = "init"
    /\ LET restored == RestartFromCheckpoint(checkpoint,
                           [epoch |-> 0, student |-> InitialStudent,
                            teacher |-> [num |-> InitialStudent, den |-> 1]])
       IN /\ student' = restored.student
          /\ teacher' = restored.teacher
          /\ epoch' = restored.epoch
    /\ tpc' = "epoch"
    /\ it' = 0
    /\ gstep' = 0
    /\ sched' = -1
    /\ loss_finite' = TRUE
    /\ trace' = <<>>
    /\ teacherBefore' = teacher'
    /\ reads' = <<>>
    /\ exit_code' = -1
    /\ UNCHANGED <<epochs, nIter, use_fp16, checkpoint, log, restarts>>
    /\ UNCHANGED <<allReads, midKill>>
    /\ UNCHANGED <<augVars, lossVars>>

\* for epoch in range(start_epoch, args.epochs): the call of train_one_epoch
EnterEpoch ==
    /\ tpc = "epoch"
    /\ epoch < epochs
    /\ it' = 0
    /\ tpc' = "iter"
    /\ UNCHANGED <<epochs, nIter, use_fp16, epoch, gstep, sched, student, teacher,
                   loss_finite, trace, teacherBefore, reads, checkpoint, log, exit_code,
                   restarts>>
    /\ UNCHANGED <<allReads, midKill>>
    /\ UNCHANGED <<augVars, lossVars>>

\* the loop of train_dino is over
Finished ==
    /\ tpc = "epoch"
    /\ epoch >= epochs
    /\ tpc' = "finished"
    /\ exit_code' = 0
    /\ UNCHANGED <<epochs, nIter, use_fp16, epoch, it, gstep, sched, student, teacher,
                   loss_finite, trace, teacherBefore, reads, checkpoint, log, restarts>>
    /\ UNCHANGED <<allReads, midKill>>
    /\ UNCHANGED <<augVars, lossVars>>

\* the next batch: it = len(data_loader) * epoch + it, then lr and wd
SetSchedules ==
    /\ tpc = "iter"
    /\ it < nIter
    /\ gstep' = nIter * epoch + it
    /\ sched' = gstep'
    /\ reads' = Append(reads, gstep')
    /\ trace' = <<"schedules">>
    /\ tpc' = TrainStepAfter("schedules")
    /\ UNCHANGED <<epochs, nIter, use_fp16, epoch, it, student, teacher, loss_finite,
                   teacherBefore, checkpoint, log, exit_code, restarts>>
    /\ allReads' = Append(allReads, <<"lr", gstep'>>)
    /\ UNCHANGED midKill
    /\ UNCHANGED <<augVars, lossVars>>

\* the data loader is exhausted: train_one_epoch returns
EpochDone ==
    /\ tpc = "iter"
    /\ it >= nIter
    /\ tpc' = "save"
    /\ trace' = <<>>
    /\ UNCHANGED <<epochs, nIter, use_fp16, epoch, it, gstep, sched, student, teacher,
                   loss_finite, teacherBefore, reads, checkpoint, log, exit_code,
                   restarts>>
    /\ UNCHANGED <<allReads, midKill>>
    /\ UNCHANGED <<augVars, lossVars>>

\* the forward passes and the loss, finite or not
ForwardLoss ==
    /\ tpc = "forward"
    /\ \E finite \in BOOLEAN : loss_finite' = finite
    /\ trace' = Append(trace, "forward")
    /\ tpc' = TrainStepAfter("forward")
    /\ UNCHANGED <<epochs, nIter, use_fp16, epoch, it, gstep, sched, student, teacher,
                   teacherBefore, reads, checkpoint, log, exit_code, restarts>>
    /\ UNCHANGED <<allReads, midKill>>
    /\ UNCHANGED <<augVars, lossVars>>

\* the loss is not finite: sys.exit(1)
ExitNonFinite ==
    /\ tpc = "check"
    /\ MustExit(loss_finite)
    /\ tpc' = "exited"
    /\ exit_code' = 1
    /\ UNCHANGED <<epochs, nIter, use_fp16, epoch, it, gstep, sched, student, teacher,
                   loss_finite, trace, teacherBefore, reads, checkpoint, log, restarts>>
    /\ UNCHANGED <<allReads, midKill>>
    /\ UNCHANGED <<augVars, lossVars>>

\* the loss is finite
LossChecked ==
    /\ tpc = "check"
    /\ ~MustExit(loss_finite)
    /\ tpc' = TrainStepAfter("check")
    /\ UNCHANGED <<epochs, nIter, use_fp16, epoch, it, gstep, sched, student, teacher,
                   loss_finite, trace, teacherBefore, reads, checkpoint, log, exit_code,
                   restarts>>
    /\ UNCHANGED <<allReads, midKill>>
    /\ UNCHANGED <<augVars, lossVars>>

\* optimizer.zero_grad(), the backward pass, clipping, the last layer's gradients
Backward ==
    /\ tpc = "backward"
    /\ trace' = Append(trace, "backward")
    /\ tpc' = TrainStepAfter("backward")
    /\ UNCHANGED <<epochs, nIter, use_fp16, epoch, it, gstep, sched, student, teacher,
                   loss_finite, teacherBefore, reads, checkpoint, log, exit_code,
                   restarts>>
    /\ UNCHANGED <<allReads, midKill>>
    /\ UNCHANGED <<augVars, lossVars>>

\* optimizer.step(), or fp16_scaler.step(optimizer), which skips the step
\* when it finds a gradient that is not finite
OptimizerStep ==
    /\ tpc = "step"
    /\ \E skipped \in {FALSE, use_fp16} :
          student' = IF skipped THEN student ELSE student + Gradient(student, gstep)
    /\ trace' = Append(trace, "step")
    /\ tpc' = TrainStepAfter("step")
    /\ UNCHANGED <<epochs, nIter, use_fp16, epoch, it, gstep, sched, teacher,
                   loss_finite, teacherBefore, reads, checkpoint, log, exit_code,
                   restarts>>
    /\ UNCHANGED <<allReads, midKill>>
    /\ UNCHANGED <<augVars, lossVars>>

\* m = momentum_schedule[it], then the update of every teacher parameter
EmaUpdate ==
    /\ tpc = "ema"
    /\ teacherBefore' = teacher
    /\ teacher' = Ema(teacher, student, MomentumSchedule(gstep, epochs * nIter))
    /\ trace' = Append(trace, "ema")
    /\ tpc' = TrainStepAfter("ema")
    /\ UNCHANGED <<epochs, nIter, use_fp16, epoch, it, gstep, sched, student,
                   loss_finite, reads, checkpoint, log, exit_code, restarts>>
    /\ allReads' = Append(allReads, <<"momentum", gstep>>)
    /\ UNCHANGED midKill
    /\ UNCHANGED <<augVars, lossVars>>

\* torch.cuda.synchronize() and the metric logger: the iteration is over
LogMetrics ==
    /\ tpc = "metrics"
    /\ it' = it + 1
    /\ tpc' = "iter"
    /\ UNCHANGED <<epochs, nIter, use_fp16, epoch, gstep, sched, student, teacher,
                   loss_finite, trace, teacherBefore, reads, checkpoint, log, exit_code,
                   restarts>>
    /\ UNCHANGED <<allReads, midKill>>
    /\ UNCHANGED <<augVars, lossVars>>

SaveCheckpointSameEpoch ==
    /\ tpc = "save"
    /\ checkpoint' = [exists |-> TRUE, epoch |-> epoch, student |-> student,
                      teacher |-> teacher]
    /\ tpc' = "log"
    /\ UNCHANGED <<epochs, nIter, use_fp16, epoch, it, gstep, sched, student, teacher,
                   loss_finite, trace, teacherBefore, reads, log, exit_code, restarts>>
    /\ UNCHANGED <<allReads, midKill>>
    /\ UNCHANGED <<augVars, lossVars>>

\* utils.save_on_master(save_dict, .../checkpoint.pth), 'epoch': epoch + 1
SaveCheckpoint ==
    /\ tpc = "save"
    /\ checkpoint' = [exists |-> TRUE, epoch |-> epoch + 1, student |-> student,
                      teacher |-> teacher]
    /\ tpc' = "log"
    /\ UNCHANGED <<epochs, nIter, use_fp16, epoch, it, gstep, sched, student, teacher,
                   loss_finite, trace, teacherBefore, reads, log, exit_code, restarts>>
    /\ UNCHANGED <<allReads, midKill>>
    /\ UNCHANGED <<augVars, lossVars>>

\* the record of the epoch appended to log.txt; the loop goes on
WriteLog ==
    /\ tpc = "log"
    /\ log' = Append(log, epoch)
    /\ epoch' = epoch + 1
    /\ tpc' = "epoch"
    /\ UNCHANGED <<epochs, nIter, use_fp16, it, gstep, sched, student, teacher,
                   loss_finite, trace, teacherBefore, reads, checkpoint, exit_code,
                   restarts>>
    /\ UNCHANGED <<allReads, midKill>>
    /\ UNCHANGED <<augVars, lossVars>>

\* the running process is killed from outside and the job is started again
KillAndRestart ==
    /\ tpc \notin {"init", "exited", "finished"}
    /\ restarts < MaxRestarts
    /\ restarts' = restarts + 1
    /\ tpc' = "init"
    /\ UNCHANGED <<epochs, nIter, use_fp16, epoch, it, gstep, sched, student, teacher,
                   loss_finite, trace, teacherBefore, reads, checkpoint, log, exit_code>>
    /\ midKill' = (midKill \/ tpc \notin {"epoch", "log"})
    /\ UNCHANGED allReads
    /\ UNCHANGED <<augVars, lossVars>>

(***************************************************************************)
(* Specification of one call of DataAugmentationDINO                       *)
(***************************************************************************)
vars == <<augVars, lossVars, trainVars>>

AugIdle ==
    /\ local_crops_number = 0
    /\ image = Composite(<<TileW, TileH>>, 0)
    /\ call_images = <<>>
    /\ crops = <<>>
    /\ pc = "idle"
    /\ calls = <<>>
    /\ pyRand = [seed |-> 0, pos |-> 0]
    /\ torchRand = [seed |-> 0, pos |-> 0]
    /\ br = "none"
    /\ bpc = "none"
    /\ images = <<>>
    /\ image_diff = <<>>
    /\ ijhw = <<0, 0, 0, 0>>
    /\ jit = NoJitter
    /\ do_it = FALSE
    /\ p = 0
    /\ torchTensor = NoTensor

LossIdle ==
    /\ ncrops = 2
    /\ batch = 1
    /\ world = 1
    /\ center = ZeroCenter
    /\ lossIn = NoLossIn
    /\ prevCenter = ZeroCenter
    /\ pairs = <<>>
    /\ n_loss_terms = 0
    /\ total_loss = NoLoss
    /\ raised = "none"
    /\ evals = 0

TrainIdle ==
    /\ epochs = 1
    /\ nIter = 1
    /\ use_fp16 = FALSE
    /\ tpc = "idle"
    /\ epoch = 0
    /\ it = 0
    /\ gstep = 0
    /\ sched = -1
    /\ student = InitialStudent
    /\ teacher = [num |-> InitialStudent, den |-> 1]
    /\ loss_finite = TRUE
    /\ trace = <<>>
    /\ teacherBefore = [num |-> InitialStudent, den |-> 1]
    /\ reads = <<>>
    /\ checkpoint = NoCheckpoint
    /\ log = <<>>
    /\ exit_code = -1
    /\ restarts = 0
    /\ allReads = <<>>
    /\ midKill = FALSE

InitAug ==
    /\ local_crops_number \in 0..MaxLocal
    /\ image \in {Composite(size, pat) : size \in CompositeSizes, pat \in 0..MaxPattern}
    /\ call_images = <<>>
    /\ crops = <<>>
    /\ pc = "split"
    /\ calls = <<>>
    /\ pyRand \in [seed : 0..MaxPySeed, pos : {0}]
    /\ torchRand \in [seed : 0..MaxTorchSeed, pos : {0}]
    /\ br = "none"
    /\ bpc = "none"
    /\ images = <<>>
    /\ image_diff = <<>>
    /\ ijhw = <<0, 0, 0, 0>>
    /\ jit = NoJitter
    /\ do_it = FALSE
    /\ p = 0
    /\ torchTensor = NoTensor
    /\ LossIdle
    /\ TrainIdle

NextAug ==
    \/ Split
    \/ CallBranch
    \/ CropStep
    \/ DiffStep
    \/ HFlipStep
    \/ VFlipStep
    \/ JitterStep
    \/ BlurStep
    \/ RandintStep
    \/ SolarizeStep
    \/ TensorStep
    \/ ConcatStep
    \/ ReturnStep
    \/ Finish

SpecAug == InitAug /\ [][NextAug]_vars

(***************************************************************************)
(* Specification of a DINOLoss module: construction, then calls of forward *)
(***************************************************************************)
InitLoss ==
    /\ ncrops \in 0..MaxCrops
    /\ batch \in 1..MaxBatch
    /\ world \in 1..MaxWorld
    /\ center = ZeroCenter
    /\ lossIn = NoLossIn
    /\ prevCenter = ZeroCenter
    /\ pairs = <<>>
    /\ n_loss_terms = 0
    /\ total_loss = NoLoss
    /\ raised = "none"
    /\ evals = 0
    /\ AugIdle
    /\ TrainIdle

NextLoss ==
    \/ Forward
    \/ ForwardChunkError

SpecLoss == InitLoss /\ [][NextLoss]_vars

(***************************************************************************)
(* Specification of a training job: train_dino, killed and started again   *)
(* at most MaxRestarts times                                               *)
(***************************************************************************)
InitTrain ==
    /\ epochs \in 1..MaxEpochs
    /\ nIter \in 1..MaxIter
    /\ use_fp16 \in BOOLEAN
    /\ tpc = "init"
    /\ epoch = 0
    /\ it = 0
    /\ gstep = 0
    /\ sched = -1
    /\ student = InitialStudent
    /\ teacher = [num |-> InitialStudent, den |-> 1]
    /\ loss_finite = TRUE
    /\ trace = <<>>
    /\ teacherBefore = [num |-> InitialStudent, den |-> 1]
    /\ reads = <<>>
    /\ checkpoint = NoCheckpoint
    /\ log = <<>>
    /\ exit_code = -1
    /\ restarts = 0
    /\ allReads = <<>>
    /\ midKill = FALSE
    /\ AugIdle
    /\ LossIdle

NextTrain ==
    \/ Start
    \/ EnterEpoch
    \/ Finished
    \/ SetSchedules
    \/ EpochDone
    \/ ForwardLoss
    \/ ExitNonFinite
    \/ LossChecked
    \/ Backward
    \/ OptimizerStep
    \/ EmaUpdate
    \/ LogMetrics
    \/ SaveCheckpoint
    \/ WriteLog
    \/ KillAndRestart

SpecTrain == InitTrain /\ [][NextTrain]_vars

(***************************************************************************)
(* Properties of the view generation (checked under SpecAug)               *)
(***************************************************************************)
\* the number of frames the composite was split into
F == Len(call_images)

\* frame x of the running branch as it is right after the crop and resize
Cropped(x) ==
    Resize(TFCrop(call_images[x], ijhw[1], ijhw[2], ijhw[3], ijhw[4]),
           <<SizeOf(br), SizeOf(br)>>)

SliceOf(t) == [px |-> t.px, adj |-> t.adj, norm |-> t.norm]
IsFrameSlice(sl) == sl.norm = << <<ImageNetMean, ImageNetStd>> >>
IsDiffSlice(sl) == sl.norm = << <<ZeroMean, ImageNetStd>> >>

\* C1: a call returns exactly 2 + local_crops_number views, appended in the
\* order transfo1, transfo2, then the local views, also when there is none.
C1_SampleLayout ==
    /\ Len(calls) = Len(crops)
    /\ \A k \in 1..Len(calls) :
          calls[k].fn = (IF k = 1 THEN "transfo1"
                         ELSE IF k = 2 THEN "transfo2" ELSE "local_transfo")
    /\ pc = "done" => Len(crops) = 2 + local_crops_number

C1_Witness ==
    /\ pc = "done"
    /\ local_crops_number > 0
    /\ Len(crops) = 2 + local_crops_number

\* C2 (as claimed): the assembled view is [frame F-1, diff F-2, frame F-2,
\* ..., diff 0, frame 0]: it starts with the last frame and every difference
\* lies between its two frames.
C2_ClaimedLayout ==
    bpc = "return" =>
        /\ Len(torchTensor.data) = 2 * Len(images) - 1
        /\ \A k \in 1..Len(images) :
              torchTensor.data[2 * (Len(images) - k) + 1] = SliceOf(images[k])
        /\ \A d \in 1..Len(image_diff) :
              torchTensor.data[2 * Len(images) - 2 * d] = SliceOf(image_diff[d])

\* C3 (as claimed): every view has shape (3 * (2F - 1), H, W).
C3_ClaimedShape ==
    \A k \in 1..Len(crops) :
        LET side == IF k <= 2 THEN 224 ELSE 96
        IN crops[k].shape = <<3 * (2 * F - 1), side, side>>

\* C3 (amended): every view has shape (3, 2F - 1, H, W): 3 channels by 2F - 1
\* slices along axis 1, F of them frames and F - 1 differences, H = W = 224
\* in the two global views and 96 in the local ones; for F = 4 that is 7
\* slices of 3 channels, 21 in all.
C3_ViewShape ==
    \A k \in 1..Len(crops) :
        LET side == IF k <= 2 THEN 224 ELSE 96
            view == crops[k]
        IN /\ view.shape = <<3, 2 * F - 1, side, side>>
           /\ Len(view.data) = 2 * F - 1
           /\ Cardinality({n \in 1..Len(view.data) : IsFrameSlice(view.data[n])}) = F
           /\ Cardinality({n \in 1..Len(view.data) : IsDiffSlice(view.data[n])}) = F - 1
           /\ F = 4 => view.shape[1] * view.shape[2] = 21

C3_Witness ==
    /\ pc = "done"
    /\ F = 4
    /\ Len(crops) = 3
    /\ crops[3].shape = <<3, 7, 96, 96>>

\* C4: a branch samples one rectangle, inside the first frame, applies that
\* rectangle to every frame and resizes every frame to the branch's side.
C4_SharedRectangle ==
    bpc = "diff" =>
        /\ torchRand.pos = 2 * Len(calls) + 1
        /\ ijhw[1] >= 0 /\ ijhw[2] >= 0 /\ ijhw[3] > 0 /\ ijhw[4] > 0
        /\ ijhw[1] + ijhw[3] <= call_images[1].size[2]
        /\ ijhw[2] + ijhw[4] <= call_images[1].size[1]
        /\ Len(images) = F
        /\ \A x \in 1..F :
              /\ images[x] = Cropped(x)
              /\ images[x].size = <<SizeOf(br), SizeOf(br)>>

\* two branches of one sample that drew different rectangles, the second
\* having just cropped frames whose content depends on the rectangle
C4_Witness ==
    /\ bpc = "diff"
    /\ Len(calls) >= 1
    /\ calls[1].rect # ijhw
    /\ F >= 2
    /\ \E x \in 1..F : images[x].px # call_images[x].px

\* C5: right after the difference loop there are F - 1 differences and
\* diff[i] = min(255, max(0, frame[i] - frame[i+1] + 2)) in every pixel; equal
\* adjacent frames give 2 everywhere.
C5_DifferenceValues ==
    bpc = "hflip" =>
        /\ Len(image_diff) = Len(images) - 1
        /\ \A i \in 1..Len(image_diff) :
              /\ \A a \in 1..Raster, b \in 1..Raster :
                    LET v == images[i].px[a][b] - images[i + 1].px[a][b] + 2
                    IN image_diff[i].px[a][b] =
                         (IF v > 255 THEN 255 ELSE IF v < 0 THEN 0 ELSE v)
              /\ images[i].px = images[i + 1].px =>
                    \A a \in 1..Raster, b \in 1..Raster : image_diff[i].px[a][b] = 2

\* differences that were clipped at 255 and at 0
C5_Witness ==
    /\ bpc = "hflip"
    /\ \E i \in 1..Len(image_diff) : \E a \in 1..Raster, b \in 1..Raster :
          /\ images[i].px[a][b] - images[i + 1].px[a][b] + 2 > 255
          /\ image_diff[i].px[a][b] = 255
    /\ \E i \in 1..Len(image_diff) : \E a \in 1..Raster, b \in 1..Raster :
          /\ images[i].px[a][b] - images[i + 1].px[a][b] + 2 < 0
          /\ image_diff[i].px[a][b] = 0

\* C6: the differences a branch holds are those of the frames as they were
\* right after the crop and resize, whatever was done to the frames since
\* (flips, jitter, blur, solarization, conversion to tensors).
C6_DifferencesBeforeFlips ==
    Len(image_diff) > 0 =>
        /\ Len(image_diff) = F - 1
        /\ \A i \in 1..Len(image_diff) :
              /\ image_diff[i].px = Subtract(Cropped(i), Cropped(i + 1)).px
              /\ image_diff[i].adj = <<>>

\* a branch about to return whose frames were flipped and whose differences
\* were not
C6_Witness ==
    /\ bpc = "return"
    /\ Len(image_diff) > 0
    /\ \E x \in 1..Len(images) : images[x].px # Cropped(x).px
    /\ \E i \in 1..Len(image_diff) :
          /\ HFlipImg(image_diff[i]).px # image_diff[i].px
          /\ image_diff[i].px = Subtract(Cropped(i), Cropped(i + 1)).px

\* C11: a composite 640 wide and 1920 high is split into exactly 4 frames of
\* 640 x 480, from top to bottom, and frame k (from 0) is the composite's
\* rows [480k, 480k + 480) over all 640 columns, pixel for pixel.
C11_FourFrames ==
    (pc # "split" /\ br = "none" /\ image.size = <<640, 1920>>) =>
        /\ Len(call_images) = 4
        /\ \A k \in 0..3 :
              /\ call_images[k + 1].size = <<640, 480>>
              /\ call_images[k + 1].adj = <<>>
              /\ \A a \in 1..Raster, b \in 1..Raster :
                    call_images[k + 1].px[a][b] = image.px[k * Raster + a][b]

\* the four frames of a composite whose rows differ
C11_Witness ==
    /\ pc = "branch"
    /\ image.size = <<640, 1920>>
    /\ Len(call_images) = 4
    /\ \A k \in 1..3 : call_images[k].px # call_images[k + 1].px

\* the frames of the running branch carry the library operation op
HasOp(op) ==
    \E x \in 1..Len(images) : \E n \in 1..Len(images[x].adj) : images[x].adj[n][1] = op

\* C12: in transfo1 the apply flag handed to the Gaussian blur is true
\* whatever the draw is, and transfo1 makes no solarization decision.
C12_BlurAlwaysInTransfo1 ==
    br = "transfo1" =>
        /\ bpc = "randint" => do_it
        /\ bpc # "solarize"
        /\ ~HasOp(OpSolarize)

\* C13: a flag is true exactly when its draw is at or above the threshold:
\* in transfo2 the blur flag for a draw >= 0.1 and the solarization flag for
\* a later draw of its own >= 0.2; in local_transfo the blur flag for a draw
\* >= 0.5, and local_transfo makes no solarization decision.
C13_GatingPolarity ==
    /\ (br = "transfo2" /\ bpc = "randint") =>
          /\ do_it <=> (p >= 10)
          /\ pyRand.pos = 4 + 3
    /\ (br = "transfo2" /\ bpc = "tensor") =>
          /\ do_it <=> (p >= 20)
          /\ pyRand.pos = 4 + 5
    /\ (br = "local_transfo" /\ bpc = "randint") => (do_it <=> (p >= 50))
    /\ br = "local_transfo" => (bpc # "solarize" /\ ~HasOp(OpSolarize))

\* a call of transfo2 whose draws left the frames without blur and with
\* solarization
C13_Witness ==
    /\ br = "transfo2"
    /\ bpc = "tensor"
    /\ do_it
    /\ p >= 20
    /\ ~HasOp(OpBlur)
    /\ HasOp(OpSolarize)

\* calls of random.random() and random.randint() a branch makes before the
\* statement at position step, and in all
PyDrawsOf(b) == IF b = "transfo2" THEN 5 ELSE 4
PyDrawsAt(b, step) ==
    CASE step \in {"crop", "diff", "hflip"} -> 0
      [] step = "vflip" -> 1
      [] step \in {"jitter", "blur"} -> 2
      [] step = "randint" -> 3
      [] step = "solarize" -> 4
      [] OTHER -> PyDrawsOf(b)

RECURSIVE PyDrawsUpTo(_)
PyDrawsUpTo(n) == IF n = 0 THEN 0 ELSE PyDrawsOf(calls[n].fn) + PyDrawsUpTo(n - 1)

\* the content px mirrored left to right if hf and top to bottom if vf
Mirror(px, hf, vf) ==
    [a \in 1..Len(px) |-> [b \in 1..Len(px[1]) |->
        px[IF vf THEN Len(px) + 1 - a ELSE a][IF hf THEN Len(px[1]) + 1 - b ELSE b]]]

\* the four jitter operations in the order fn_idx, with the factors of jit
JitterOps ==
    [n \in 1..Len(jit.fn_idx) |->
        <<jit.fn_idx[n],
          CASE jit.fn_idx[n] = 0 -> jit.brightness_factor
            [] jit.fn_idx[n] = 1 -> jit.contrast_factor
            [] jit.fn_idx[n] = 2 -> jit.saturation_factor
            [] OTHER -> jit.hue_factor>>]

\* C14: a branch draws each decision once and applies it to all its frames:
\* after the flips every frame is the cropped frame mirrored in the same
\* way, after the jitter every frame carries the same four operations with
\* the same factors in the same order, and the generators have advanced by
\* one draw per decision.
C14_SharedDecisions ==
    br # "none" =>
        /\ pyRand.pos = PyDrawsUpTo(Len(calls)) + PyDrawsAt(br, bpc)
        /\ torchRand.pos = 2 * Len(calls)
                           + (CASE bpc = "crop" -> 0
                                [] bpc \in {"diff", "hflip", "vflip", "jitter"} -> 1
                                [] OTHER -> 2)
        /\ bpc = "vflip" =>
              \E hf \in BOOLEAN :
                  \A x \in 1..F : images[x].px = Mirror(Cropped(x).px, hf, FALSE)
        /\ bpc \in {"jitter", "blur", "randint", "solarize", "tensor", "concat", "return"} =>
              \E hf \in BOOLEAN, vf \in BOOLEAN :
                  \A x \in 1..F : images[x].px = Mirror(Cropped(x).px, hf, vf)
        /\ bpc \in {"blur", "randint", "solarize", "tensor", "concat", "return"} =>
              /\ Len(jit.fn_idx) = 4
              /\ \A x \in 1..F :
                    /\ Len(images[x].adj) >= 4
                    /\ \A n \in 1..4 : images[x].adj[n] = JitterOps[n]
                    /\ images[x].adj = images[1].adj

\* a branch with several distinct frames, all mirrored left to right and
\* none top to bottom, after the jitter
C14_Witness ==
    /\ br # "none"
    /\ bpc = "blur"
    /\ F >= 2
    /\ images[1].px # images[2].px
    /\ \A x \in 1..F :
          /\ images[x].px = Mirror(Cropped(x).px, TRUE, FALSE)
          /\ images[x].px # Cropped(x).px
          /\ images[x].px # Mirror(Cropped(x).px, FALSE, TRUE)

\* C17 as stated: a composite that is no multiple of the tile is split
\* into floor(height / 480) * floor(width / 640) frames, each of them inside
\* the composite.
C17_PartialTilesDropped ==
    (pc # "split" /\ (image.size[2] % TileH # 0 \/ image.size[1] % TileW # 0)) =>
        /\ Len(call_images) = (image.size[2] \div TileH) * (image.size[1] \div TileW)
        /\ \A k \in 1..Len(call_images) :
              /\ TileBox(k, image.size[1], TileH, TileW)[3] <= image.size[1]
              /\ TileBox(k, image.size[1], TileH, TileW)[4] <= image.size[2]

\* C17: the composite is split into ceil(height / 480) * ceil(width / 640)
\* frames of 640 x 480, row by row; a frame shows the composite where its
\* tile lies inside it and black where the tile reaches beyond it, so a
\* composite that is no multiple of the tile loses nothing and its trailing
\* frames are padded.
C17_PartialTilesPadded ==
    (pc # "split" /\ br = "none") =>
        LET w == image.size[1]
            h == image.size[2]
            nc == (w + TileW - 1) \div TileW
            nr == (h + TileH - 1) \div TileH
        IN /\ Len(call_images) = nr * nc
           /\ (h % TileH # 0 \/ w % TileW # 0) =>
                 Len(call_images) > (h \div TileH) * (w \div TileW)
           /\ \A k \in 1..Len(call_images) :
                 /\ call_images[k].size = <<TileW, TileH>>
                 /\ \A a \in 1..Raster, b \in 1..Raster :
                       LET x2 == 2 * Raster * TileW * ((k - 1) % nc) + (2 * b - 1) * TileW
                           y2 == 2 * Raster * TileH * ((k - 1) \div nc) + (2 * a - 1) * TileH
                       IN call_images[k].px[a][b] =
                            (IF x2 >= 2 * Raster * w \/ y2 >= 2 * Raster * h
                             THEN 0
                             ELSE image.px[((y2 * Len(image.px)) \div (2 * Raster * h)) + 1]
                                          [((x2 * Len(image.px[1])) \div (2 * Raster * w)) + 1])

\* a composite of 1000 x 500 split into 4 frames: the second shows the
\* composite on its left and padding on its right, the last only padding
C17_Witness ==
    /\ pc = "branch"
    /\ image.size = <<1000, 500>>
    /\ Len(call_images) = 4
    /\ call_images[2].px[1][1] # 0
    /\ call_images[2].px[1][Raster] = 0
    /\ \A a \in 1..Raster, b \in 1..Raster : call_images[4].px[a][b] = 0

\* the draw ColorJitter.get_params of the running branch was given
JitterDraw == TorchValue([torchRand EXCEPT !.pos = 2 * Len(calls) + 1])

\* the value at quantile u / 2 of the interval [lo, hi]
AtQuantile(lo, hi, u) == lo + ((hi - lo) * u) \div 2

\* C18 as stated: brightness, contrast and saturation are all sampled from
\* [0.6, 1.4], the hue from [-0.1, 0.1].
C18_ClaimedRanges ==
    (br # "none" /\ Len(jit.fn_idx) = 4) =>
        /\ jit.brightness_factor = AtQuantile(60, 140, JitterDraw % 3)
        /\ jit.contrast_factor = AtQuantile(60, 140, (JitterDraw + 1) % 3)
        /\ jit.saturation_factor = AtQuantile(60, 140, (JitterDraw + 2) % 3)
        /\ jit.hue_factor = AtQuantile(-10, 10, (JitterDraw \div 2) % 3)

\* C18: in every branch brightness and contrast are sampled from [0.6, 1.4],
\* the saturation from [0.8, 1.2] and the hue from [-0.1, 0.1].
C18_JitterRanges ==
    (br # "none" /\ Len(jit.fn_idx) = 4) =>
        /\ jit.brightness_factor \in 60..140
        /\ jit.contrast_factor \in 60..140
        /\ jit.saturation_factor \in 80..120
        /\ jit.hue_factor \in (-10)..10
        /\ jit.brightness_factor = AtQuantile(60, 140, JitterDraw % 3)
        /\ jit.contrast_factor = AtQuantile(60, 140, (JitterDraw + 1) % 3)
        /\ jit.saturation_factor = AtQuantile(80, 120, (JitterDraw + 2) % 3)
        /\ jit.hue_factor = AtQuantile(-10, 10, (JitterDraw \div 2) % 3)

\* a local branch whose draw put the brightness at the lower end of its
\* range and the saturation at the upper end of its own
C18_Witness ==
    /\ br = "local_transfo"
    /\ bpc = "blur"
    /\ jit.brightness_factor = 60
    /\ jit.saturation_factor = 120

\* C19: from the split to the return of __call__ the list of frames is the
\* one the splitter produced, in length and in every frame, each frame
\* 640 x 480 and without any operation applied, and every branch starts
\* from exactly that list, whatever the branches before it did.
C19_FramesUnchanged ==
    pc # "split" =>
        /\ call_images = SplitFrames(image, TileH, TileW)
        /\ \A k \in 1..Len(call_images) :
              /\ call_images[k].size = <<TileW, TileH>>
              /\ call_images[k].adj = <<>>
        /\ bpc = "crop" => images = call_images

\* the third branch of a sample, which has cropped, flipped and jittered
\* its own frames after two branches did the same to theirs
C19_Witness ==
    /\ br = "local_transfo"
    /\ bpc = "blur"
    /\ Len(calls) = 2
    /\ F >= 2
    /\ \A x \in 1..F :
          /\ images[x].px # call_images[x].px
          /\ images[x].size # call_images[x].size
          /\ images[x].adj # call_images[x].adj

(***************************************************************************)
(* Properties of DINOLoss (checked under SpecLoss)                         *)
(***************************************************************************)
RECURSIVE SumOver(_, _)
SumOver(kind, set) ==
    IF set = {} THEN 0
    ELSE LET e == CHOOSE x \in set : TRUE
         IN PairLoss(kind, e[1], e[2]) + SumOver(kind, set \ {e})

ValidPairs == {pr \in (0..1) \X (0..(ncrops - 1)) : pr[2] # pr[1]}

\* C7: with ncrops >= 2 a call adds one term for every teacher view iq in
\* {0, 1} and student view v # iq, 2 * ncrops - 2 terms in all, and returns
\* their sum divided by that number.
C7_LossTerms ==
    (evals > 0 /\ raised = "none" /\ ncrops >= 2) =>
        /\ n_loss_terms = 2 * ncrops - 2
        /\ Len(pairs) = n_loss_terms
        /\ {pairs[n] : n \in 1..Len(pairs)} = ValidPairs
        /\ \A n \in 1..Len(pairs) : pairs[n][1] # pairs[n][2]
        /\ total_loss.num = SumOver(lossIn.kind, ValidPairs)
        /\ total_loss.den = 2 * ncrops - 2

C7_Witness ==
    /\ evals > 0
    /\ raised = "none"
    /\ ncrops = 3
    /\ n_loss_terms = 4
    /\ <<1, 2>> \in {pairs[n] : n \in 1..Len(pairs)}

\* C8: the center starts at zero and a call replaces it by
\* 0.9 * center + 0.1 * m, m being the sum of the teacher logits over all
\* workers divided by (rows * world size); with one worker and one vector V
\* on every row that is 0.9 * center + 0.1 * V.
C8_CenterUpdate ==
    /\ evals = 0 => center = ZeroCenter
    /\ (evals > 0 /\ raised = "none") =>
          LET rows == Len(lossIn.teacher_output)
          IN /\ center.den = 10 * prevCenter.den * (rows * world)
             /\ \A k \in 1..OutDim :
                   center.num[k] = 9 * prevCenter.num[k] * (rows * world)
                                   + lossIn.reduced[k] * prevCenter.den
             /\ (world = 1 /\ lossIn.kind = 0) =>
                   \A k \in 1..OutDim :
                       center.num[k] = rows * (9 * prevCenter.num[k]
                                               + (3 * k) * prevCenter.den)

\* a second call, on several workers, from a center that is not zero
C8_Witness ==
    /\ evals >= 2
    /\ raised = "none"
    /\ world > 1
    /\ prevCenter # ZeroCenter
    /\ center # prevCenter

\* C16 as stated: with ncrops < 2 no pair is valid and the call fails.
C16_ClaimedFailure ==
    (evals > 0 /\ ncrops < 2) => (n_loss_terms = 0 /\ raised # "none")

\* C16: with ncrops = 1 the one pair (teacher view 1, student view 0) is
\* valid and the call returns its loss; with ncrops = 0 the call fails in
\* chunk, before a pair is counted and before the center is updated; no
\* ncrops >= 1 leaves the call without a pair.
C16_DegenerateCrops ==
    evals > 0 =>
        /\ ncrops = 1 =>
              /\ raised = "none"
              /\ n_loss_terms = 1
              /\ pairs = << <<1, 0>> >>
              /\ total_loss = [num |-> 1 + ((lossIn.kind * 5 + 7) % 11), den |-> 1]
        /\ ncrops < 1 =>
              /\ raised = "RuntimeError"
              /\ n_loss_terms = 0
              /\ pairs = <<>>
              /\ center = ZeroCenter
        /\ ncrops >= 1 => (n_loss_terms >= 1 /\ raised = "none")

\* a call with ncrops = 1 that returned a loss and moved the center
C16_Witness ==
    /\ evals > 0
    /\ ncrops = 1
    /\ raised = "none"
    /\ n_loss_terms = 1
    /\ total_loss.num > 0
    /\ center # ZeroCenter

(***************************************************************************)
(* Properties of the training loop (checked under SpecTrain)               *)
(***************************************************************************)
Positions(step) == {n \in 1..Len(trace) : trace[n] = step}

\* C9: in an iteration that completes, the teacher update runs once, after
\* the one optimizer step, and sets the teacher parameter to
\* m * teacher + (1 - m) * student with the student as the step left it and
\* m = momentum_schedule[len(data_loader) * epoch + it]; at no time has an
\* iteration updated the teacher without having stepped the optimizer.
C9_EmaAfterStep ==
    /\ \A n \in Positions("ema") : \E k \in Positions("step") : k < n
    /\ tpc = "metrics" =>
          LET m == MomentumSchedule(nIter * epoch + it, epochs * nIter)
          IN /\ Cardinality(Positions("ema")) = 1
             /\ Cardinality(Positions("step")) = 1
             /\ teacher.den = 4 * teacherBefore.den
             /\ teacher.num = m * teacherBefore.num
                              + (4 - m) * student * teacherBefore.den

\* an iteration, not the first, in which the step changed the student and
\* the update changed the teacher
C9_Witness ==
    /\ tpc = "metrics"
    /\ nIter * epoch + it >= 1
    /\ trace = <<"schedules", "forward", "backward", "step", "ema">>
    /\ teacher.num * teacherBefore.den # teacherBefore.num * teacher.den
    /\ student * teacherBefore.den # teacherBefore.num

C10_ExitState ==
    /\ (~loss_finite) => tpc \in {"check", "exited", "init"}
    /\ tpc = "exited" =>
          /\ exit_code = 1
          /\ ~loss_finite
          /\ trace = <<"schedules", "forward">>
          /\ checkpoint.exists => checkpoint.epoch <= epoch
          /\ \A n \in 1..Len(log) : log[n] # epoch

\* C10: a loss that is not finite ends the process in that iteration with
\* exit status 1: no backward pass, optimizer step or teacher update of the
\* iteration, no checkpoint and no log record of the running epoch, and no
\* step of the process after the exit.
C10_NonFiniteLossAborts == [](C10_ExitState) /\ [][tpc # "exited"]_vars

\* an exit in a later epoch, after a checkpoint was written
C10_Witness ==
    /\ tpc = "exited"
    /\ epoch >= 1
    /\ it >= 1
    /\ checkpoint.exists
    /\ Len(log) >= 1

\* the indices at which the processes of the job have read a schedule
ReadsOf(schedule) ==
    LET Is(r) == r[1] = schedule
        sel == SelectSeq(allReads, Is)
    IN [n \in 1..Len(sel) |-> sel[n][2]]

\* the positions of the process within an iteration of train_one_epoch
InIteration == {"forward", "check", "backward", "step", "ema", "metrics", "exited"}

\* C15: the checkpoint written after epoch e records e + 1; a process
\* restored from it starts at that epoch and first reads the schedules at
\* len(data_loader) * (e + 1); the indices a process reads are consecutive
\* and within [0, epochs * len(data_loader)); and as long as no process was
\* killed with an epoch under way, all processes together have read lr/wd
\* and the momentum at 0, 1, 2, ... once each, as one uninterrupted run does.
C15_ScheduleIndices ==
    /\ tpc = "log" => (checkpoint.exists /\ checkpoint.epoch = epoch + 1)
    /\ tpc = "epoch" => epoch = (IF checkpoint.exists THEN checkpoint.epoch ELSE 0)
    /\ \A n \in 1..Len(allReads) :
          allReads[n][2] >= 0 /\ allReads[n][2] < epochs * nIter
    /\ (tpc \notin {"init", "idle"} /\ Len(reads) >= 1) =>
          /\ \A n \in 1..Len(reads) : reads[n] = reads[1] + n - 1
          /\ reads[Len(reads)] = gstep
    /\ tpc \in InIteration =>
          /\ gstep = nIter * epoch + it
          /\ Len(reads) = 1 =>
                reads[1] = nIter * (IF checkpoint.exists THEN checkpoint.epoch ELSE 0)
    /\ ~midKill =>
          /\ \A n \in 1..Len(ReadsOf("lr")) : ReadsOf("lr")[n] = n - 1
          /\ \A n \in 1..Len(ReadsOf("momentum")) : ReadsOf("momentum")[n] = n - 1
          /\ Len(ReadsOf("momentum")) \in {Len(ReadsOf("lr")) - 1, Len(ReadsOf("lr"))}

\* the first iteration of a process restored at an epoch boundary
C15_Witness ==
    /\ restarts >= 1
    /\ ~midKill
    /\ checkpoint.exists
    /\ epoch = checkpoint.epoch
    /\ epoch >= 1
    /\ tpc = "forward"
    /\ reads = <<nIter * epoch>>
    /\ Len(ReadsOf("lr")) = nIter * epoch + 1
    /\ nIter >= 2
=============================================================================
